---- MODULE Spec2Model ----
(***************************************************************************)
(* photo-gallery: add_image.py and update.py.                              *)
(*                                                                         *)
(* Both scripts copy an image into images/, then rewrite the               *)
(* `const images = [ ... ];` declaration of index.html with a regular      *)
(* expression; add_image.py then stages, commits and pushes with git.      *)
(*                                                                         *)
(* Text is modelled as a sequence of tokens.  A punctuation or white-space *)
(* token is one character; KW and ID are the literal words `const` and     *)
(* `images`; a word token ("k", "p", ...) is a run of ordinary characters  *)
(* beginning with a letter that is no escape letter of Python's `re`       *)
(* replacement templates; "1", "2", "3" are single digits, never adjacent  *)
(* to another digit in any input used here.                                *)
(***************************************************************************)
EXTENDS Integers, Sequences, FiniteSets, TLC

KW    == "const"
ID    == "images"
EQ    == "="
LB    == "["
RB    == "]"
SEMI  == ";"
COMMA == ","
Q     == "dq"
SP    == " "
NL    == "nl"
BS    == "bs"

Words  == {"h", "k", "m", "p", "q", "x", "z"}

\* `const images = [` as the project's index.html spells it
Hdr == <<KW, SP, ID, SP, EQ, SP, LB>>

\* str.strip() / \s : the white-space characters of the alphabet
IsSpace(t) == t \in {SP, NL}

\* six spaces: the indentation the script writes before every new entry
Indent == <<SP, SP, SP, SP, SP, SP>>

----------------------------------------------------------------------------
(* str.strip(): the text without its leading and trailing white space *)
strip(s) ==
    LET keep == {i \in 1..Len(s) : ~IsSpace(s[i])}
    IN  IF keep = {} THEN <<>>
        ELSE LET lo == CHOOSE i \in keep : \A j \in keep : i <= j
                 hi == CHOOSE i \in keep : \A j \in keep : j <= i
             IN  SubSeq(s, lo, hi)

\* str.endswith(',')
endswith_comma(s) == Len(s) > 0 /\ s[Len(s)] = COMMA

(* \s* from position j: the first position at or after j holding no white space *)
SkipWS(s, j) ==
    LET stop == {k \in j..(Len(s) + 1) : k = Len(s) + 1 \/ ~IsSpace(s[k])}
    IN  CHOOSE k \in stop : \A l \in stop : k <= l

(* const\s+images\s*=\s*\[ anchored at position i: the position of `[`, or 0 *)
HeaderEnd(s, i) ==
    IF ~(i + 1 <= Len(s) /\ s[i] = KW /\ IsSpace(s[i + 1])) THEN 0
    ELSE LET a == SkipWS(s, i + 1)
         IN  IF ~(a <= Len(s) /\ s[a] = ID) THEN 0
             ELSE LET b == SkipWS(s, a + 1)
                  IN  IF ~(b <= Len(s) /\ s[b] = EQ) THEN 0
                      ELSE LET c == SkipWS(s, b + 1)
                           IN  IF c <= Len(s) /\ s[c] = LB THEN c ELSE 0

(* (.*?)(\];) from position j: the position of the first `]` followed by `;`, or 0 *)
FindClose(s, j) ==
    LET hits == {k \in j..(Len(s) - 1) : s[k] = RB /\ s[k + 1] = SEMI}
    IN  IF hits = {} THEN 0 ELSE CHOOSE k \in hits : \A l \in hits : k <= l

NoMatch == [found |-> FALSE, start |-> 0, lb |-> 0, close |-> 0]

(* re.search(pattern, s, re.DOTALL) from position `from`: the leftmost match.  *)
(* start is the position of `const`, lb of `[`, close of the `]` of `];`.      *)
search(s, from) ==
    LET ok == {i \in from..Len(s) :
                  HeaderEnd(s, i) # 0 /\ FindClose(s, HeaderEnd(s, i) + 1) # 0}
    IN  IF ok = {} THEN NoMatch
        ELSE LET i == CHOOSE i \in ok : \A j \in ok : i <= j
             IN  [found |-> TRUE, start |-> i, lb |-> HeaderEnd(s, i),
                  close |-> FindClose(s, HeaderEnd(s, i) + 1)]

\* a replacement that spells the opening out instead of reusing the matched text
group1_respelled(s, m) == Hdr

\* match.group(1), match.group(2), match.group(3)
group1(s, m) == SubSeq(s, m.start, m.lb)
group2(s, m) == SubSeq(s, m.lb + 1, m.close - 1)
group3(s, m) == SubSeq(s, m.close, m.close + 1)

----------------------------------------------------------------------------
\* the mark left in a text where re.sub raised re.error
ReError == "re.error"

raised(text) == \E i \in 1..Len(text) : text[i] = ReError

(* The replacement template of re.sub, expanded for one match: a backslash     *)
(* followed by a digit is that group of the match, two backslashes are one,    *)
(* a backslash followed by a letter that is no escape raises re.error, and a   *)
(* backslash followed by any other character stays as it is.                   *)
RECURSIVE expand_template(_, _, _, _)
expand_template(t, i, s, m) ==
    IF i > Len(t) THEN <<>>
    ELSE IF t[i] # BS THEN <<t[i]>> \o expand_template(t, i + 1, s, m)
    ELSE IF i = Len(t) THEN <<ReError>>
    ELSE IF t[i + 1] \in Words \cup {KW, ID} THEN <<ReError>>
    ELSE (CASE t[i + 1] = "1" -> group1(s, m)
            [] t[i + 1] = "2" -> group2(s, m)
            [] t[i + 1] = "3" -> group3(s, m)
            [] t[i + 1] = BS  -> <<BS>>
            [] OTHER          -> <<BS, t[i + 1]>>) \o expand_template(t, i + 2, s, m)

(* re.sub(pattern, template, s, flags=re.DOTALL) from position `from`: every   *)
(* non-overlapping match, left to right, is replaced (no count is given).      *)
RECURSIVE sub(_, _, _)
sub(t, s, from) ==
    IF ~search(s, from).found THEN SubSeq(s, from, Len(s))
    ELSE SubSeq(s, from, search(s, from).start - 1)
            \o expand_template(t, 1, s, search(s, from))
            \o sub(t, s, search(s, from).close + 2)

\* f'"{image_filename}"'
quoted(f) == <<Q>> \o f \o <<Q>>

(* The four-way branch that builds new_array_content from the stripped body *)
new_array_content(array_content, image_filename) ==
    IF array_content # <<>> /\ ~endswith_comma(array_content) THEN
        IF strip(array_content) # <<>>
        THEN array_content \o <<COMMA, NL>> \o Indent \o quoted(image_filename)
        ELSE <<NL>> \o Indent \o quoted(image_filename) \o <<NL>> \o Indent
    ELSE
        IF array_content # <<>>
        THEN array_content \o <<NL>> \o Indent \o quoted(image_filename)
        ELSE <<NL>> \o Indent \o quoted(image_filename) \o <<NL>> \o Indent

(* The whole computation between reading and writing the document:           *)
(* found = FALSE: no declaration; ok = FALSE: re.sub raised re.error.        *)
patch(content, image_filename) ==
    LET m == search(content, 1)
    IN  IF ~m.found THEN [found |-> FALSE, ok |-> TRUE, text |-> content]
        ELSE LET array_content == strip(group2(content, m))
                 new == new_array_content(array_content, image_filename)
                 r == sub(<<BS, "1">> \o new \o <<BS, "3">>, content, 1)
             IN  [found |-> TRUE, ok |-> ~raised(r), text |-> r]

----------------------------------------------------------------------------
(* The runs.  Spec runs one script at a time, MaxRuns times in a row;          *)
(* SpecRace runs two scripts at once on the same working directory.            *)
MaxRuns == 3

VARIABLES
    html_exists,    \* os.path.exists('index.html')
    html,           \* the text of index.html
    images_dir,     \* the folder images/ exists
    images,         \* the filenames copied into images/
    pc,             \* per run: the statement it is about to execute
    script,         \* per run: "add_image" or "update"
    argv,           \* per run: sys.argv[1], and whether that path exists
    content,        \* per run: the text read from index.html
    new_content,    \* per run: the text computed by re.sub
    copied,         \* per run: shutil.copy2 returned
    patched,        \* per run: what add_image_to_html did
    published,      \* per run: what commit_and_push_changes returned
    git_log,        \* per run: the git commands issued, with their outcome
    exit_status,    \* per run: the process exit status, -1 while running
    pre,            \* per run: files as they were when the run started
    added,          \* history: the filenames of the add_image_to_html calls that returned True
    html0,          \* history: index.html as first found
    runs,           \* history: the number of runs started
    overlap         \* history: a run read index.html while another was between its read and its write

vars == <<html_exists, html, images_dir, images, pc, script, argv, content,
          new_content, copied, patched, published, git_log, exit_status,
          pre, added, html0, runs, overlap>>

files  == <<html_exists, html, images_dir, images>>
locals == <<script, argv, content, new_content, copied, patched, published,
            git_log, exit_status, pre>>

Procs == DOMAIN pc

\* image_filename = os.path.basename(image_path)
image_filename(p) == argv[p].name

----------------------------------------------------------------------------
(* Inputs *)
Filenames ==
    { <<"p">>, <<"q">>,                    \* ordinary names
      <<"x", BS, "1">>,                    \* a name holding a backslash and a digit
      <<"x", BS, "q">>,                    \* a name holding a backslash and a letter
      <<"x", RB, SEMI, "z">> }             \* a name holding `];`

NoArg == [given |-> FALSE, name |-> <<>>, exists |-> FALSE]

Args == {NoArg}
        \cup {[given |-> TRUE, name |-> <<"p">>, exists |-> FALSE]}
        \cup {[given |-> TRUE, name |-> f, exists |-> TRUE] : f \in Filenames}

Scripts == {"add_image", "update"}

Documents ==
    { \* <h>const images = [];<z>
      <<"h">> \o Hdr \o <<RB, SEMI, "z">>,
      \* one entry on its own indented line
      <<"h">> \o Hdr \o <<NL>> \o Indent \o <<Q, "k", Q, NL, SP, SP, SP, SP, RB, SEMI, "z">>,
      \* an entry followed by a comma
      <<"h">> \o Hdr \o <<Q, "k", Q, COMMA, SP, RB, SEMI, "z">>,
      \* a body of white space only, other spacing in the header
      <<KW, NL, SP, ID, EQ, LB, SP, NL, RB, SEMI>>,
      \* an entry holding two backslashes
      Hdr \o <<Q, "k", BS, BS, "m", Q, RB, SEMI>>,
      \* two declarations
      <<"h">> \o Hdr \o <<Q, "k", Q, RB, SEMI, SP>> \o Hdr \o <<SP, Q, "m", Q, RB, SEMI, "z">>,
      \* no declaration: the `;` is missing
      <<"h">> \o Hdr \o <<Q, "k", Q, RB, "z">> }

Snapshot == [html_exists |-> html_exists, html |-> html,
             images_dir |-> images_dir, images |-> images]

InitFiles ==
    /\ html_exists \in BOOLEAN
    /\ html \in (IF html_exists THEN Documents ELSE {<<>>})
    /\ images_dir = FALSE
    /\ images = {}
    /\ html0 = html
    /\ added = <<>>
    /\ overlap = FALSE

InitRuns(P, A) ==
    /\ pc = [p \in P |-> "check_args"]
    /\ script \in [P -> Scripts]
    /\ argv \in [P -> A]
    /\ content = [p \in P |-> <<>>]
    /\ new_content = [p \in P |-> <<>>]
    /\ copied = [p \in P |-> FALSE]
    /\ patched = [p \in P |-> "none"]
    /\ published = [p \in P |-> "none"]
    /\ git_log = [p \in P |-> <<>>]
    /\ exit_status = [p \in P |-> -1]
    /\ pre = [p \in P |-> Snapshot]

Init ==
    /\ InitFiles
    /\ InitRuns({1}, Args)
    /\ runs = 1

InitRace ==
    /\ InitFiles
    /\ html_exists
    /\ InitRuns({1, 2}, {a \in Args : a.given /\ a.exists})
    /\ runs = 2

----------------------------------------------------------------------------
(* sys.exit(code), or the end of main (code 0), or an uncaught exception (code 1) *)
Exit(p, code) ==
    /\ pc' = [pc EXCEPT ![p] = "done"]
    /\ exit_status' = [exit_status EXCEPT ![p] = code]

Goto(p, label) ==
    /\ pc' = [pc EXCEPT ![p] = label]
    /\ UNCHANGED exit_status

\* main without the os.path.exists(image_path) check
CheckArgs_no_exists(p) ==
    /\ pc[p] = "check_args"
    /\ IF ~argv[p].given THEN Exit(p, 1) ELSE Goto(p, "makedirs")
    /\ UNCHANGED <<files, script, argv, content, new_content, copied, patched,
                   published, git_log, pre, added, html0, runs, overlap>>

\* main: the argument checks
CheckArgs(p) ==
    /\ pc[p] = "check_args"
    /\ IF ~argv[p].given THEN Exit(p, 1)
       ELSE IF ~argv[p].exists THEN Exit(p, 1)
       ELSE Goto(p, "makedirs")
    /\ UNCHANGED <<files, script, argv, content, new_content, copied, patched,
                   published, git_log, pre, added, html0, runs, overlap>>

\* main: os.makedirs('images', exist_ok=True)
MakeDirs(p) ==
    /\ pc[p] = "makedirs"
    /\ images_dir' = TRUE
    /\ Goto(p, "copy")
    /\ UNCHANGED <<html_exists, html, images, script, argv, content, new_content,
                   copied, patched, published, git_log, pre, added, html0, runs,
                   overlap>>

\* main: shutil.copy2 returns, or raises and the script exits with 1
Copy(p) ==
    /\ pc[p] = "copy"
    /\ \E ok \in BOOLEAN :
          IF ok
          THEN /\ images' = images \cup {image_filename(p)}
               /\ copied' = [copied EXCEPT ![p] = TRUE]
               /\ Goto(p, "html_exists")
          ELSE /\ UNCHANGED <<images, copied>>
               /\ Exit(p, 1)
    /\ UNCHANGED <<html_exists, html, images_dir, script, argv, content,
                   new_content, patched, published, git_log, pre, added, html0,
                   runs, overlap>>

\* main without its sys.exit(1) after a failed update
PatchFailed_no_exit(p) ==
    /\ patched' = [patched EXCEPT ![p] = "False"]
    /\ IF script[p] = "add_image" THEN Goto(p, "git_check") ELSE Exit(p, 0)

\* add_image_to_html returned False: main prints "Failed to update index.html", sys.exit(1)
PatchFailed(p) ==
    /\ patched' = [patched EXCEPT ![p] = "False"]
    /\ Exit(p, 1)

\* add_image_to_html: os.path.exists(html_file)
CheckHtml(p) ==
    /\ pc[p] = "html_exists"
    /\ IF html_exists
       THEN /\ Goto(p, "read")
            /\ UNCHANGED patched
       ELSE PatchFailed(p)
    /\ UNCHANGED <<files, script, argv, content, new_content, copied, published,
                   git_log, pre, added, html0, runs, overlap>>

\* add_image_to_html: f.read(), re.search, the new body, re.sub
ReadHtml(p) ==
    /\ pc[p] = "read"
    /\ content' = [content EXCEPT ![p] = html]
    /\ overlap' = (overlap \/ \E o \in Procs \ {p} : pc[o] \in {"open_w", "write"})
    /\ LET r == patch(html, image_filename(p))
       IN  IF ~r.found
           THEN /\ PatchFailed(p)
                /\ UNCHANGED new_content
           ELSE IF ~r.ok
           THEN /\ patched' = [patched EXCEPT ![p] = "raised"]
                /\ UNCHANGED new_content
                /\ Exit(p, 1)
           ELSE /\ new_content' = [new_content EXCEPT ![p] = r.text]
                /\ UNCHANGED patched
                /\ Goto(p, "open_w")
    /\ UNCHANGED <<files, script, argv, copied, published, git_log, pre, added,
                   html0, runs>>

\* add_image_to_html: open(html_file, 'w') truncates the file
OpenForWrite(p) ==
    /\ pc[p] = "open_w"
    /\ html' = <<>>
    /\ Goto(p, "write")
    /\ UNCHANGED <<html_exists, images_dir, images, script, argv, content,
                   new_content, copied, patched, published, git_log, pre, added,
                   html0, runs, overlap>>

\* add_image_to_html: f.write(new_content), close, return True;
\* update.py is then finished, add_image.py goes on to publish
WriteHtml(p) ==
    /\ pc[p] = "write"
    /\ html' = new_content[p]
    /\ patched' = [patched EXCEPT ![p] = "True"]
    /\ added' = Append(added, image_filename(p))
    /\ IF script[p] = "add_image" THEN Goto(p, "git_check") ELSE Exit(p, 0)
    /\ UNCHANGED <<html_exists, images_dir, images, script, argv, content,
                   new_content, copied, published, git_log, pre, html0, runs,
                   overlap>>

----------------------------------------------------------------------------
(* commit_and_push_changes: every git command is a call of run_git_command,    *)
(* which returns (True, stdout) or, on CalledProcessError, (False, stderr).    *)
Ran(p, cmd, ok) == git_log' = [git_log EXCEPT ![p] = Append(@, [cmd |-> cmd, ok |-> ok])]

\* main turning a failed publication into exit status 1
Return_checked(p, value) ==
    /\ published' = [published EXCEPT ![p] = value]
    /\ Exit(p, IF value = "True" THEN 0 ELSE 1)

\* the value commit_and_push_changes returns; main ignores it and ends with status 0
Return(p, value) ==
    /\ published' = [published EXCEPT ![p] = value]
    /\ Exit(p, 0)

\* check_git_repo: git rev-parse --git-dir
GitCheck(p) ==
    /\ pc[p] = "git_check"
    /\ \E ok \in BOOLEAN :
          /\ Ran(p, "rev-parse", ok)
          /\ IF ok THEN Goto(p, "git_add") /\ UNCHANGED published
                   ELSE Return(p, "False")
    /\ UNCHANGED <<files, script, argv, content, new_content, copied, patched,
                   pre, added, html0, runs, overlap>>

\* git add images/<image_filename> index.html
GitAdd(p) ==
    /\ pc[p] = "git_add"
    /\ \E ok \in BOOLEAN :
          /\ Ran(p, "add", ok)
          /\ IF ok THEN Goto(p, "git_commit") /\ UNCHANGED published
                   ELSE Return(p, "False")
    /\ UNCHANGED <<files, script, argv, content, new_content, copied, patched,
                   pre, added, html0, runs, overlap>>

\* a commit whose failure does not stop the push
GitCommit_no_gate(p) ==
    /\ pc[p] = "git_commit"
    /\ \E ok \in BOOLEAN :
          /\ Ran(p, "commit", ok)
          /\ Goto(p, "git_push")
    /\ UNCHANGED <<files, script, argv, content, new_content, copied, patched,
                   published, pre, added, html0, runs, overlap>>

\* git commit -m "<commit_message>"
GitCommit(p) ==
    /\ pc[p] = "git_commit"
    /\ \E ok \in BOOLEAN :
          /\ Ran(p, "commit", ok)
          /\ IF ok THEN Goto(p, "git_push") ELSE Goto(p, "git_status")
    /\ UNCHANGED <<files, script, argv, content, new_content, copied, patched,
                   published, pre, added, html0, runs, overlap>>

\* after a failed commit: git status --porcelain, then return False
GitStatus(p) ==
    /\ pc[p] = "git_status"
    /\ \E ok \in BOOLEAN :
          /\ Ran(p, "status", ok)
          /\ Return(p, "False")
    /\ UNCHANGED <<files, script, argv, content, new_content, copied, patched,
                   pre, added, html0, runs, overlap>>

\* git push
GitPush(p) ==
    /\ pc[p] = "git_push"
    /\ \E ok \in BOOLEAN :
          /\ Ran(p, "push", ok)
          /\ Return(p, IF ok THEN "True" ELSE "False")
    /\ UNCHANGED <<files, script, argv, content, new_content, copied, patched,
                   pre, added, html0, runs, overlap>>

\* the operator starts one of the scripts again, once the last run has ended
Restart(p) ==
    /\ pc[p] = "done"
    /\ runs < MaxRuns
    /\ runs' = runs + 1
    /\ pc' = [pc EXCEPT ![p] = "check_args"]
    /\ \E s \in Scripts, a \in Args :
          /\ script' = [script EXCEPT ![p] = s]
          /\ argv' = [argv EXCEPT ![p] = a]
    /\ content' = [content EXCEPT ![p] = <<>>]
    /\ new_content' = [new_content EXCEPT ![p] = <<>>]
    /\ copied' = [copied EXCEPT ![p] = FALSE]
    /\ patched' = [patched EXCEPT ![p] = "none"]
    /\ published' = [published EXCEPT ![p] = "none"]
    /\ git_log' = [git_log EXCEPT ![p] = <<>>]
    /\ exit_status' = [exit_status EXCEPT ![p] = -1]
    /\ pre' = [pre EXCEPT ![p] = Snapshot]
    /\ UNCHANGED <<files, added, html0, overlap>>

Next ==
    \/ \E p \in Procs : CheckArgs(p)
    \/ \E p \in Procs : MakeDirs(p)
    \/ \E p \in Procs : Copy(p)
    \/ \E p \in Procs : CheckHtml(p)
    \/ \E p \in Procs : ReadHtml(p)
    \/ \E p \in Procs : OpenForWrite(p)
    \/ \E p \in Procs : WriteHtml(p)
    \/ \E p \in Procs : GitCheck(p)
    \/ \E p \in Procs : GitAdd(p)
    \/ \E p \in Procs : GitCommit(p)
    \/ \E p \in Procs : GitStatus(p)
    \/ \E p \in Procs : GitPush(p)
    \/ \E p \in Procs : Restart(p)

NextRace ==
    \/ \E p \in Procs : CheckArgs(p)
    \/ \E p \in Procs : MakeDirs(p)
    \/ \E p \in Procs : Copy(p)
    \/ \E p \in Procs : CheckHtml(p)
    \/ \E p \in Procs : ReadHtml(p)
    \/ \E p \in Procs : OpenForWrite(p)
    \/ \E p \in Procs : WriteHtml(p)
    \/ \E p \in Procs : GitCheck(p)
    \/ \E p \in Procs : GitAdd(p)
    \/ \E p \in Procs : GitCommit(p)
    \/ \E p \in Procs : GitStatus(p)
    \/ \E p \in Procs : GitPush(p)

Spec == Init /\ [][Next]_vars

SpecRace == InitRace /\ [][NextRace]_vars

----------------------------------------------------------------------------
(* Vocabulary of the properties *)

IsPrefix(a, s) == Len(a) <= Len(s) /\ SubSeq(s, 1, Len(a)) = a
IsSuffix(a, s) == Len(a) <= Len(s) /\ SubSeq(s, Len(s) - Len(a) + 1, Len(s)) = a

\* a occurs in s as a run of consecutive tokens
Contains(s, a) == \E i \in 1..(Len(s) - Len(a) + 1) : SubSeq(s, i, i + Len(a) - 1) = a

\* the text with every white-space token removed
NoSpace(s) == SelectSeq(s, LAMBDA c : ~IsSpace(c))

\* the leading and the trailing white space of a text that is not all white space
Lead(s)  == SubSeq(s, 1, SkipWS(s, 1) - 1)
Trail(s) == SubSeq(s, Len(Lead(s)) + Len(strip(s)) + 1, Len(s))

\* two commas with nothing but white space between them
DoubleComma(s) == \E i \in 1..Len(s) : \E j \in (i + 1)..Len(s) :
                     /\ s[i] = COMMA /\ s[j] = COMMA
                     /\ \A k \in (i + 1)..(j - 1) : IsSpace(s[k])

\* the entries "f1", "f2", ..., "fn" with one comma between neighbours
RECURSIVE JoinEntries(_)
JoinEntries(fs) ==
    IF fs = <<>> THEN <<>>
    ELSE IF Len(fs) = 1 THEN quoted(fs[1])
    ELSE quoted(fs[1]) \o <<COMMA>> \o JoinEntries(Tail(fs))

\* the number of declarations the pattern finds in a text
RECURSIVE MatchCount(_, _)
MatchCount(s, from) ==
    IF ~search(s, from).found THEN 0
    ELSE 1 + MatchCount(s, search(s, from).close + 2)

HasDecl(s) == search(s, 1).found
\* the declaration's body, the text up to and including `[`, the text from `];` on
BodyOf(s) == group2(s, search(s, 1))
UpToOpen(s) == SubSeq(s, 1, search(s, 1).lb)
FromClose(s) == SubSeq(s, search(s, 1).close, Len(s))

\* the array literal of a document with one declaration and no `];` after it, read
\* to its closing `];` even when an entry holds `];` itself
Manifest(s) ==
    LET hits == {k \in 1..(Len(s) - 1) : s[k] = RB /\ s[k + 1] = SEMI}
        last == CHOOSE k \in hits : \A l \in hits : l <= k
    IN  SubSeq(s, search(s, 1).lb + 1, last - 1)

\* run p called add_image_to_html and it returned True; no write is under way
Patched(p) == patched[p] = "True" /\ \A o \in Procs : pc[o] # "write"

NoDeclBefore(p) == ~pre[p].html_exists \/ ~HasDecl(pre[p].html)

BadArgs(p) == ~argv[p].given \/ ~argv[p].exists

----------------------------------------------------------------------------
(* C1: when the declaration body is non-empty, does not end in a comma and   *)
(* has white space after `[` and before `];`, a successful add keeps that    *)
(* white space and only inserts `,` newline six spaces "f" after the last    *)
(* entry.                                                                    *)
C1_KeepsSurroundingWhitespace ==
    \A p \in Procs :
        LET old == pre[p].html
            body == BodyOf(old)
        IN  (/\ Patched(p)
             /\ strip(body) # <<>>
             /\ ~endswith_comma(strip(body))
             /\ Lead(body) # <<>>
             /\ Trail(body) # <<>>)
            => html = UpToOpen(old) \o Lead(body) \o strip(body)
                         \o <<COMMA, NL>> \o Indent \o quoted(image_filename(p))
                         \o Trail(body) \o FromClose(old)

(* C2: starting from `const images = [];`, after successful adds of          *)
(* f1, ..., fn the declaration body is exactly "f1", ..., "fn" in call       *)
(* order, one comma between neighbours, none before the first or after the   *)
(* last.                                                                     *)
C2_EntriesInCallOrder ==
    (/\ html_exists
     /\ MatchCount(html0, 1) = 1
     /\ BodyOf(html0) = <<>>
     /\ Len(added) >= 1
     /\ \A p \in Procs : pc[p] # "write")
    => /\ HasDecl(html)
       /\ NoSpace(Manifest(html)) = JoinEntries(added)

C4_NoExtraComma ==
    \A p \in Procs :
        LET core == strip(BodyOf(pre[p].html))
        IN  (/\ Patched(p)
             /\ MatchCount(pre[p].html, 1) = 1
             /\ core # <<>>
             /\ endswith_comma(core))
            => /\ HasDecl(html)
               /\ Manifest(html) = core \o <<NL>> \o Indent \o quoted(image_filename(p))
               /\ ~DoubleComma(Manifest(html))
               /\ ~endswith_comma(Manifest(html))

(* C5: when index.html is missing or holds no declaration, the document is   *)
(* never opened for writing and stays as it was, the run ends with status 1  *)
(* without any git command, and the copied image stays in images/.           *)
C5_NoDeclarationNoWrite ==
    \A p \in Procs :
        NoDeclBefore(p)
        => /\ html = pre[p].html
           /\ html_exists = pre[p].html_exists
           /\ pc[p] \notin {"open_w", "write", "git_check", "git_add",
                            "git_commit", "git_status", "git_push"}
           /\ git_log[p] = <<>>
           /\ (pc[p] = "done" /\ copied[p])
                 => /\ patched[p] = "False"
                    /\ exit_status[p] = 1
                    /\ image_filename(p) \in images

C5_Witness ==
    \E p \in Procs :
        /\ pc[p] = "done" /\ copied[p] /\ script[p] = "add_image"
        /\ pre[p].html_exists /\ ~HasDecl(pre[p].html)
        /\ exit_status[p] = 1 /\ image_filename(p) \in images

(* C6: a run with no argument, or with a source path that does not exist,    *)
(* ends with status 1 and changes nothing: images/ is not created, nothing   *)
(* is copied, index.html is not written, no git command runs.                *)
C6_BadArgumentsChangeNothing ==
    \A p \in Procs :
        BadArgs(p)
        => /\ Snapshot = pre[p]
           /\ git_log[p] = <<>>
           /\ ~copied[p]
           /\ pc[p] \in {"check_args", "done"}
           /\ pc[p] = "done" => exit_status[p] = 1

C6_Witness ==
    \E p \in Procs :
        /\ pc[p] = "done" /\ exit_status[p] = 1
        /\ argv[p].given /\ ~argv[p].exists
        /\ ~images_dir /\ images = {}

(* C7: add_image.py ends with status 0 exactly when the copy succeeded and   *)
(* add_image_to_html returned True, and with 1 otherwise; whatever the       *)
(* publisher does, the copied file and the patched document stay.            *)
C7_ExitStatusIgnoresPublisher ==
    \A p \in Procs :
        (pc[p] = "done" /\ script[p] = "add_image")
        => /\ exit_status[p] \in {0, 1}
           /\ exit_status[p] = 0 <=> (copied[p] /\ patched[p] = "True")
           /\ patched[p] = "True"
                 => /\ image_filename(p) \in images
                    /\ html_exists
                    /\ html = new_content[p]

C7_Witness ==
    \E p \in Procs :
        /\ pc[p] = "done" /\ script[p] = "add_image"
        /\ exit_status[p] = 0
        /\ published[p] = "False"
        /\ git_log[p] # <<>>
        /\ git_log[p][Len(git_log[p])] = [cmd |-> "push", ok |-> FALSE]

(* C8: the git commands run in the order repository check, stage, commit,    *)
(* push, each only after the one before it succeeded; after a failed commit  *)
(* only the status query follows; True is returned only when push succeeded. *)
C8_GitGates ==
    \A p \in Procs :
        LET log == git_log[p]
            ok(i, c) == log[i] = [cmd |-> c, ok |-> TRUE]
        IN  /\ \A i \in 1..Len(log) :
                  /\ log[i].cmd = "rev-parse" => i = 1
                  /\ log[i].cmd = "add"       => i = 2 /\ ok(1, "rev-parse")
                  /\ log[i].cmd = "commit"    => i = 3 /\ ok(2, "add")
                  /\ log[i].cmd = "push"      => i = 4 /\ ok(3, "commit")
                  /\ log[i].cmd = "status"    => i = 4 /\ log[3] = [cmd |-> "commit", ok |-> FALSE]
            /\ published[p] = "True" <=> (Len(log) = 4 /\ ok(4, "push"))
            /\ (pc[p] = "done" /\ log # <<>>) => published[p] \in {"True", "False"}

C8_Witness ==
    \E p \in Procs :
        /\ pc[p] = "done" /\ published[p] = "False"
        /\ Len(git_log[p]) = 4
        /\ git_log[p][3] = [cmd |-> "commit", ok |-> FALSE]
        /\ git_log[p][4].cmd = "status"

(* C9: with more than one declaration in the document, a successful add      *)
(* changes only the first: everything from the first closing `];` on, later  *)
(* declarations included, is as before.                                      *)
C9_OnlyFirstOccurrence ==
    \A p \in Procs :
        (Patched(p) /\ MatchCount(pre[p].html, 1) > 1)
        => /\ IsPrefix(UpToOpen(pre[p].html), html)
           /\ IsSuffix(FromClose(pre[p].html), html)

(* C10: when two runs adding different filenames do not overlap (one has     *)
(* written before the other reads) and both succeed, the manifest holds both *)
(* entries; when they overlap, one of the entries can be lost although both  *)
(* runs end with status 0.                                                   *)
C10_SequentialRunsKeepBoth ==
    (/\ \A p \in Procs : pc[p] = "done" /\ patched[p] = "True" /\ exit_status[p] = 0
     /\ \A p, o \in Procs : p # o => image_filename(p) # image_filename(o)
     /\ ~overlap)
    => /\ HasDecl(html)
       /\ \A p \in Procs : Contains(html, quoted(image_filename(p)))

C10_LostUpdate ==
    /\ \A p \in Procs : pc[p] = "done" /\ patched[p] = "True" /\ exit_status[p] = 0
    /\ \E p, o \in Procs :
          /\ image_filename(p) = <<"p">> /\ image_filename(o) = <<"q">>
          /\ HasDecl(html)
          /\ Contains(Manifest(html), quoted(image_filename(p)))
          /\ ~Contains(html, quoted(image_filename(o)))
    /\ overlap

====
